---------------------------- MODULE Spec2Model ----------------------------
(***************************************************************************)
(* A model of django-iipimage: the ImageStorage upload pipeline            *)
(* (src/iipimage/storage.py) and the ImageFieldFile handle                 *)
(* (src/iipimage/fields.py).                                               *)
(*                                                                         *)
(* Paths.  A storage name such as "3/3f..e.jp2" is the record              *)
(*    [dir, uuid, sfx, ext]: the directory, the uuid that is the file      *)
(* root, the "_n" suffixes appended to the root, and the extension.  Two   *)
(* records are equal exactly when the strings they stand for are equal.    *)
(* self.path(name) prefixes every name with the same storage root, so the  *)
(* full path is identified with the name.                                  *)
(*                                                                         *)
(* uuid.uuid4() is modelled as a draw that never repeats: the n-th draw    *)
(* yields UuidStr(n).                                                      *)
(***************************************************************************)
EXTENDS Integers, Sequences, FiniteSets, TLC

VARIABLES
    files,      \* the storage directory: path -> [kind, mode] of existing files
    recs,       \* persisted records: id -> image name, or NoImage
    nextUuid,   \* the number of the next uuid4 draw
    perms,      \* settings.FILE_UPLOAD_PERMISSIONS: "none" or a mode
    started,    \* uploads started so far
    up,         \* per worker: the upload it is running
    baseUrl,    \* ImageStorage.base_url (settings.IMAGE_SERVER_URL), or NoUrl
    hd,         \* per ImageFieldFile instance: name, cache and what it has done
    call        \* the last call of a URL builder: its arguments and its result

vars == <<files, recs, nextUuid, perms, started, up, baseUrl, hd, call>>

----------------------------------------------------------------------------
(* Bounds *)

MaxUploads == 2
MaxRecords == 2
MaxCalls == 3

Workers == {"w1", "w2"}

Handles == {"h1", "h2"}

----------------------------------------------------------------------------
(* Values *)

NoImage == [dir |-> "", uuid |-> <<>>, sfx |-> <<>>, ext |-> ""]

NoError == [kind |-> "none", cause |-> "none", stage |-> 0]

HexChars == <<"0", "1", "2", "3", "4", "5", "6", "7",
              "8", "9", "a", "b", "c", "d", "e", "f">>

\* str(uuid.uuid4()) for the n-th draw: distinct draws give distinct strings.
UuidStr(n) == <<HexChars[(n % 16) + 1], HexChars[((n \div 16) % 16) + 1], "-",
                HexChars[((7 * n) % 16) + 1]>>

\* generate_new_image_path drawing the same uuid every time.
GenerateNewImagePathFixed(n) ==
    LET filename == UuidStr(1)
    IN  [dir |-> filename[1], uuid |-> filename, sfx |-> <<>>, ext |-> "jp2"]

\* generate_new_image_path: '%s/%s.jp2' % (filename[0], filename)
GenerateNewImagePath(n) ==
    LET filename == UuidStr(n)
        directory == filename[1]
    IN  [dir |-> directory, uuid |-> filename, sfx |-> <<>>, ext |-> "jp2"]

\* temp_file of _convert_image: <dir>/<file_root>_1.tif
TempFile(full_path) ==
    [dir |-> full_path.dir, uuid |-> full_path.uuid,
     sfx |-> Append(full_path.sfx, 1), ext |-> "tif"]

Exists(fs, p) == p \in DOMAIN fs

Remove(fs, p) == [q \in (DOMAIN fs) \ {p} |-> fs[q]]

Put(fs, p, f) == [q \in (DOMAIN fs) \cup {p} |-> IF q = p THEN f ELSE fs[q]]

\* The name the underlying store writes at: `name` itself when no file is
\* there, else the first <root>_<n><ext> that is free.
AvailableName(fs, name) ==
    IF ~Exists(fs, name) THEN name
    ELSE LET Cand(n) == [name EXCEPT !.sfx = Append(name.sfx, n)]
             n == CHOOSE i \in 1..(Cardinality(DOMAIN fs) + 1) :
                      /\ ~Exists(fs, Cand(i))
                      /\ \A j \in 1..(i - 1) : Exists(fs, Cand(j))
         IN  Cand(n)

NoUrl == "None"

ServerUrl == "http://iip/fcgi-bin/iipsrv.fcgi"

Unset == <<>>

\* A fresh ImageFieldFile: no _dimensions_cache attribute yet.
NewHandle(h) ==
    [name |-> GenerateNewImagePath(IF h = "h1" THEN 1 ELSE 2),
     cache |-> Unset, calls |-> 0, gets |-> 0, fetched |-> 0,
     result |-> "none", returned |-> FALSE, url |-> <<>>, body |-> <<>>]

\* No URL builder has been called.
NoCall ==
    [op |-> "none", h |-> "none",
     height |-> [t |-> "none", v |-> 0, s |-> <<>>, isint |-> FALSE, text |-> ""],
     width |-> [t |-> "none", v |-> 0, s |-> <<>>, isint |-> FALSE, text |-> ""],
     ok |-> FALSE, err |-> "none", val |-> <<>>]

IdleUpload ==
    [pc |-> "idle", inst |-> 0, had |-> NoImage, name |-> NoImage,
     saved |-> NoImage, stage |-> 0, outcome |-> <<"none", "none">>,
     removes |-> <<0, 0>>, err |-> NoError]

----------------------------------------------------------------------------

\* The storage is empty, or holds the converted image of one record, as an
\* earlier successful upload of a new instance leaves it.
Init ==
    /\ perms \in {"none", "0644"}
    /\ \/ /\ files = <<>>
          /\ recs = <<>>
          /\ nextUuid = 1
       \/ /\ files = Put(<<>>, GenerateNewImagePath(1),
                         [kind |-> "jp2",
                          mode |-> IF perms = "none" THEN "default" ELSE perms])
          /\ recs = <<GenerateNewImagePath(1)>>
          /\ nextUuid = 2
    /\ started = 0
    /\ up = [w \in Workers |-> IdleUpload]
    /\ baseUrl = ServerUrl
    /\ hd = [h \in Handles |-> NewHandle(h)]
    /\ call = NoCall


----------------------------------------------------------------------------
(* The upload of one image, step by step.                                  *)

InFlight(w) == up[w].pc \notin {"idle", "done", "failed"}

Busy(r) == \E w \in Workers : InFlight(w) /\ up[w].inst = r

\* A record without an image is persisted by the record layer.
CreateBlankRecord ==
    /\ Len(recs) < MaxRecords
    /\ recs' = Append(recs, NoImage)
    /\ UNCHANGED <<files, nextUuid, perms, started, up, baseUrl, hd, call>>

\* A worker that runs no upload takes up the upload of an image for instance
\* r (0: a new, unsaved instance, instance.id is None).
Begin(w, r) ==
    /\ up[w].pc \in {"idle", "done", "failed"}
    /\ started < MaxUploads
    /\ r = 0 => Len(recs) < MaxRecords
    /\ started' = started + 1
    /\ up' = [up EXCEPT ![w] = [IdleUpload EXCEPT !.pc = "path", !.inst = r]]
    /\ UNCHANGED <<files, recs, nextUuid, perms, baseUrl, hd, call>>

\* Uploads may overlap freely, also two for the same record.
Start(w) == \E r \in 0..Len(recs) : Begin(w, r)

\* Uploads for one record do not overlap; uploads for different records do.
StartIso(w) == \E r \in 0..Len(recs) : (r # 0 => ~Busy(r)) /\ Begin(w, r)

\* get_image_path deleting nothing.
DeletesOriginalNever(image_path) == FALSE

\* get_image_path, `else` of `if not image_path`: original.image.delete(save=False)
DeletesOriginal(image_path) == image_path # NoImage

\* get_image_path: the existing name is reused when the instance has an id
\* and the original record has an image.
ReusesPath(id, image_path) == id # 0 /\ image_path # NoImage

GetImagePath(w) ==
    /\ up[w].pc = "path"
    /\ LET id == up[w].inst
           original == IF id # 0 THEN recs[id] ELSE NoImage
       IN  /\ IF ReusesPath(id, original)
              THEN /\ up' = [up EXCEPT ![w].pc = "save", ![w].had = original,
                                       ![w].name = original]
                   /\ files' = IF DeletesOriginal(original)
                               THEN Remove(files, original) ELSE files
                   /\ UNCHANGED nextUuid
              ELSE /\ up' = [up EXCEPT ![w].pc = "save", ![w].had = original,
                                       ![w].name = GenerateNewImagePath(nextUuid)]
                   /\ nextUuid' = nextUuid + 1
                   /\ UNCHANGED files
    /\ UNCHANGED <<recs, perms, started, baseUrl, hd, call>>

\* ImageStorage._save, line 49: the underlying store writes the raw upload
\* and returns the name it wrote at.
RawSave(w) ==
    /\ up[w].pc = "save"
    /\ LET name == AvailableName(files, up[w].name)
       IN  /\ files' = Put(files, name,
                           [kind |-> "raw",
                            mode |-> IF perms = "none" THEN "default" ELSE perms])
           /\ up' = [up EXCEPT ![w].pc = "run", ![w].saved = name, ![w].stage = 1]
    /\ UNCHANGED <<recs, nextUuid, perms, started, baseUrl, hd, call>>

\* Both stages tidying up the final path.
InputPathAlwaysFinal(u) == u.saved

\* Both stages tidying up the temporary file.
InputPathAlwaysTemp(u) == TempFile(u.saved)

\* input_path of _call_image_conversion: full_path (line 65), temp_file (line 67)
InputPath(u) == IF u.stage = 1 THEN u.saved ELSE TempFile(u.saved)

\* The file the stage's command reads: the first %s of CONVERT_TO_TIFF (line
\* 64) and of CONVERT_TO_JP2 (line 66).
CommandInput(u) == IF u.stage = 1 THEN u.saved ELSE TempFile(u.saved)

\* Both stages writing the temporary file.
OutputPathAlwaysTemp(u) == TempFile(u.saved)

\* The file the stage's command writes: the second %s of CONVERT_TO_TIFF
\* (line 64) and of CONVERT_TO_JP2 (line 66).
OutputPath(u) == IF u.stage = 1 THEN TempFile(u.saved) ELSE u.saved

OutputKind(u) == IF u.stage = 1 THEN "tif" ELSE "jp2"

\* subprocess.check_call of the stage's command: it returns, exits nonzero
\* (CalledProcessError) or cannot be run at all (OSError).
RunCommand(w) ==
    /\ up[w].pc = "run"
    /\ LET u == up[w]
           inp == CommandInput(u)
           out == OutputPath(u)
       IN  \/ /\ Exists(files, inp)
              /\ files[inp].kind # "partial"
              /\ files' = Put(files, out, [kind |-> OutputKind(u), mode |-> "default"])
              /\ up' = [up EXCEPT ![w].pc = "finally", ![w].outcome[u.stage] = "ok"]
           \/ /\ \/ UNCHANGED files
                 \/ /\ Exists(files, inp)
                    /\ files' = Put(files, out, [kind |-> "partial", mode |-> "default"])
              /\ up' = [up EXCEPT ![w].pc = "except", ![w].outcome[u.stage] = "exit"]
           \/ /\ UNCHANGED files
              /\ up' = [up EXCEPT ![w].pc = "finally", ![w].outcome[u.stage] = "spawn",
                                  ![w].err = [kind |-> "OSError", cause |-> "spawn",
                                              stage |-> u.stage]]
    /\ UNCHANGED <<recs, nextUuid, perms, started, baseUrl, hd, call>>

\* os.remove(input_path) in stage u.stage: one more removal; a missing file
\* raises OSError, which replaces whatever exception was on its way.
AfterRemove(u, existed, onSuccess) ==
    [u EXCEPT !.removes[u.stage] = @ + 1,
              !.err = IF existed THEN onSuccess
                      ELSE [kind |-> "OSError", cause |-> "remove", stage |-> u.stage]]

\* The except clause, lines 80-82: remove the input, raise IOError.
ExceptRemove(w) ==
    /\ up[w].pc = "except"
    /\ LET u == up[w]
           inp == InputPath(u)
           v == AfterRemove(u, Exists(files, inp),
                            [kind |-> "IOError", cause |-> "exit", stage |-> u.stage])
       IN  /\ files' = Remove(files, inp)
           /\ up' = [up EXCEPT ![w] = [v EXCEPT !.pc = "finally"]]
    /\ UNCHANGED <<recs, nextUuid, perms, started, baseUrl, hd, call>>

\* _convert_image going on whatever the stage raised.
PropagatesNever(err) == FALSE

\* An exception that leaves _call_image_conversion is caught nowhere in
\* _convert_image (lines 61-70) or _save (lines 48-51): it ends the upload.
Propagates(err) == err # NoError

\* The finally clause, lines 83-86: remove the input; then the pending
\* exception, if any, leaves _call_image_conversion and _convert_image.
FinallyRemove(w) ==
    /\ up[w].pc = "finally"
    /\ LET u == up[w]
           inp == InputPath(u)
           v == AfterRemove(u, Exists(files, inp), u.err)
       IN  /\ files' = Remove(files, inp)
           /\ up' = [up EXCEPT ![w] =
                        IF Propagates(v.err) THEN [v EXCEPT !.pc = "failed"]
                        ELSE IF u.stage = 1 THEN [v EXCEPT !.pc = "run", !.stage = 2]
                        ELSE [v EXCEPT !.pc = "chmod"]]
    /\ UNCHANGED <<recs, nextUuid, perms, started, baseUrl, hd, call>>

\* _convert_image, lines 69-70: reset the permissions of the converted file.
Chmod(w) ==
    /\ up[w].pc = "chmod"
    /\ LET u == up[w]
       IN  IF perms = "none"
           THEN /\ up' = [up EXCEPT ![w].pc = "return"]
                /\ UNCHANGED files
           ELSE IF Exists(files, u.saved)
           THEN /\ files' = [files EXCEPT ![u.saved].mode = perms]
                /\ up' = [up EXCEPT ![w].pc = "return"]
           ELSE /\ up' = [up EXCEPT ![w].pc = "failed",
                                    ![w].err = [kind |-> "OSError", cause |-> "chmod",
                                                stage |-> 2]]
                /\ UNCHANGED files
    /\ UNCHANGED <<recs, nextUuid, perms, started, baseUrl, hd, call>>

\* _save returns the name (line 51) and the record layer persists it on the
\* instance: a new record for an unsaved instance.
Return(w) ==
    /\ up[w].pc = "return"
    /\ LET u == up[w]
       IN  IF u.inst = 0
           THEN /\ recs' = Append(recs, u.saved)
                /\ up' = [up EXCEPT ![w].pc = "done", ![w].inst = Len(recs) + 1]
           ELSE /\ recs' = [recs EXCEPT ![u.inst] = u.saved]
                /\ up' = [up EXCEPT ![w].pc = "done"]
    /\ UNCHANGED <<files, nextUuid, perms, started, baseUrl, hd, call>>

Step(w) ==
    \/ GetImagePath(w)
    \/ RawSave(w)
    \/ RunCommand(w)
    \/ ExceptRemove(w)
    \/ FinallyRemove(w)
    \/ Chmod(w)
    \/ Return(w)

Next ==
    \/ CreateBlankRecord
    \/ \E w \in Workers : Start(w) \/ Step(w)

NextIso ==
    \/ CreateBlankRecord
    \/ \E w \in Workers : StartIso(w) \/ Step(w)

\* Any number of workers upload at once, to any records.
Spec == Init /\ [][Next]_vars

\* As Spec, but two uploads for the same record never overlap.
IsoSpec == Init /\ [][NextIso]_vars

----------------------------------------------------------------------------
(* The image handle: src/iipimage/fields.py.  Text is a sequence of        *)
(* one-character strings; a URL is the sequence of the parts formatted     *)
(* into it.                                                                *)

\* full_base_url formatting whatever base_url is.
FullBaseUrlUnchecked(base, name) ==
    [ok |-> TRUE, err |-> "none", val |-> <<base, "?FIF=", name>>]

\* ImageStorage.full_base_url: ValueError without a base URL, else
\* '%s?FIF=%s' % (self.base_url, name)
FullBaseUrl(base, name) ==
    IF base = NoUrl THEN [ok |-> FALSE, err |-> "ValueError", val |-> <<>>]
    ELSE [ok |-> TRUE, err |-> "none", val |-> <<base, "?FIF=", name>>]

MaxSizeLit == <<"M", "a", "x", "-", "s", "i", "z", "e", ":">>

Digits == <<"0", "1", "2", "3", "4", "5", "6", "7", "8", "9">>

IsDigit(c) == \E i \in 1..10 : Digits[i] = c

DigitVal(c) == (CHOOSE i \in 1..10 : Digits[i] = c) - 1

IsSpace(c) == c \in {" ", "\t", "\n", "\r"}

RECURSIVE Strip(_)
\* unicode.strip(): leading and trailing whitespace removed
Strip(s) ==
    IF s = <<>> THEN s
    ELSE IF IsSpace(Head(s)) THEN Strip(Tail(s))
    ELSE IF IsSpace(s[Len(s)]) THEN Strip(SubSeq(s, 1, Len(s) - 1))
    ELSE s

RECURSIVE RunLength(_, _, _)
\* The number of characters from position i on that are all digits
\* (digit = TRUE) or all whitespace (digit = FALSE): what \d+ or \s+ takes.
RunLength(s, i, digit) ==
    IF i > Len(s) THEN 0
    ELSE IF (IF digit THEN IsDigit(s[i]) ELSE IsSpace(s[i]))
    THEN 1 + RunLength(s, i + 1, digit)
    ELSE 0

RECURSIVE IntOf(_, _, _)
\* int() of the n digits that start at position i
IntOf(s, i, n) ==
    IF n = 0 THEN 0
    ELSE 10 * IntOf(s, i, n - 1) + DigitVal(s[i + n - 1])

\* "." matching every character.
NoNewlineIgnored(s, a, b) == TRUE

\* "." matches no newline
NoNewline(s, a, b) == \A k \in a..b : s[k] # "\n"

\* ^.*?Max-size:(\d+)\s+(\d+).*?$ with "Max-size:" at position i
MatchAt(s, i) ==
    LET p1 == i + Len(MaxSizeLit)
        d1 == RunLength(s, p1, TRUE)
        sp == RunLength(s, p1 + d1, FALSE)
        p2 == p1 + d1 + sp
        d2 == RunLength(s, p2, TRUE)
    IN  /\ i + Len(MaxSizeLit) - 1 <= Len(s)
        /\ SubSeq(s, i, i + Len(MaxSizeLit) - 1) = MaxSizeLit
        /\ NoNewline(s, 1, i - 1)
        /\ d1 > 0 /\ sp > 0 /\ d2 > 0
        /\ NoNewline(s, p2 + d2, Len(s))

\* lines 16 and 20-25: (width, height) of the first match, else (0, 0)
ParseDimensions(text) ==
    LET s == Strip(text)
        at == {i \in 1..Len(s) : MatchAt(s, i)}
    IN  IF at = {} THEN <<0, 0>>
        ELSE LET i == CHOOSE k \in at : \A j \in at : k <= j
                 p1 == i + Len(MaxSizeLit)
                 d1 == RunLength(s, p1, TRUE)
                 p2 == p1 + d1 + RunLength(s, p1 + d1, FALSE)
             IN  <<IntOf(s, p1, d1), IntOf(s, p2, RunLength(s, p2, TRUE))>>

\* Response bodies the image server may send.
Bodies ==
    { <<>>,
      <<"E", "r", "r", "o", "r">>,
      MaxSizeLit \o <<"2", "0", " ", "1", "5">>,
      <<"f", "o", "o", " ">> \o MaxSizeLit \o <<"7", " ", " ", "9", " ", "b">>,
      MaxSizeLit \o <<"3", "x", "4">>,
      MaxSizeLit \o <<"8", " ", "6", "\r", "\n">>,
      <<"a", "\n">> \o MaxSizeLit \o <<"5", " ", "6">>,
      MaxSizeLit \o <<"5", " ", "6", "\n", "b">>,
      MaxSizeLit \o <<"x", " ">> \o MaxSizeLit \o <<"1", "\n", "2", "z">> }

\* _get_image_dimensions caching only the size of a response that matched.
CachedValueIfMatched(dims) == IF dims = <<0, 0>> THEN Unset ELSE dims

\* line 25: self._dimensions_cache = width, height
CachedValue(dims) == dims

\* _get_image_dimensions ignoring the cache.
UsesCacheNever(cache) == FALSE

\* line 15: hasattr(self, '_dimensions_cache')
UsesCache(cache) == cache # Unset

\* The number of _get_image_dimensions calls made so far, on all handles.
RECURSIVE CallsOn(_)
CallsOn(hs) ==
    IF hs = {} THEN 0
    ELSE LET h == CHOOSE x \in hs : TRUE
         IN  hd[h].calls + CallsOn(hs \ {h})

\* _get_image_dimensions, lines 14-26.  requests.get raises or returns a
\* response with a body.
GetImageDimensions(h) ==
    /\ CallsOn(Handles) < MaxCalls
    /\ LET d == hd[h]
           u == FullBaseUrl(baseUrl, d.name)
       IN  IF UsesCache(d.cache)
           THEN hd' = [hd EXCEPT ![h].calls = @ + 1, ![h].result = d.cache,
                                 ![h].returned = TRUE]
           ELSE IF ~u.ok
           THEN hd' = [hd EXCEPT ![h].calls = @ + 1, ![h].result = u.err,
                                 ![h].returned = FALSE]
           ELSE LET dimension_url == u.val \o <<"&OBJ=Max-size">>
                IN  \/ hd' = [hd EXCEPT ![h].calls = @ + 1, ![h].gets = @ + 1,
                                        ![h].url = dimension_url,
                                        ![h].result = "RequestException",
                                        ![h].returned = FALSE]
                    \/ \E body \in Bodies :
                         LET dims == ParseDimensions(body)
                         IN  hd' = [hd EXCEPT ![h].calls = @ + 1, ![h].gets = @ + 1,
                                              ![h].fetched = @ + 1,
                                              ![h].url = dimension_url,
                                              ![h].body = body,
                                              ![h].cache = CachedValue(dims),
                                              ![h].result = dims,
                                              ![h].returned = TRUE]
    /\ UNCHANGED <<files, recs, nextUuid, perms, started, up, baseUrl, call>>

\* ImageStorage.url with another query string.
UrlWithoutQuality(base, name) ==
    LET u == FullBaseUrl(base, name)
    IN  IF ~u.ok THEN u ELSE [u EXCEPT !.val = @ \o <<"&CVT=JPEG">>]

\* ImageStorage.url, line 101: '%s&RST=*&QLT=100&CVT=JPEG' % self.full_base_url(name)
Url(base, name) ==
    LET u == FullBaseUrl(base, name)
    IN  IF ~u.ok THEN u ELSE [u EXCEPT !.val = @ \o <<"&RST=*&QLT=100&CVT=JPEG">>]

\* The height and width arguments tried.  `isint` and `text` say what Python
\* makes of the value: whether int() accepts it, and str(int(value)).
ThumbArgs ==
    { [t |-> "none", v |-> 0, s |-> <<>>, isint |-> FALSE, text |-> ""],
      [t |-> "int", v |-> 150, s |-> <<>>, isint |-> TRUE, text |-> "150"],
      [t |-> "int", v |-> -3, s |-> <<>>, isint |-> TRUE, text |-> "-3"],
      [t |-> "str", v |-> 0, s |-> <<"a", "b", "c">>, isint |-> FALSE, text |-> ""],
      [t |-> "str", v |-> 0, s |-> <<"3", ".", "5">>, isint |-> FALSE, text |-> ""],
      [t |-> "str", v |-> 0, s |-> <<"0", "4", "2">>, isint |-> TRUE, text |-> "42"],
      [t |-> "str", v |-> 0, s |-> <<" ", "-", "7", "\n">>, isint |-> TRUE, text |-> "-7"] }

\* int(value): TypeError for None, the value of an integer, and for a string
\* the value of [whitespace][sign]digits[whitespace], else ValueError.
IntCoerce(arg) ==
    IF arg.t = "none" THEN [ok |-> FALSE, err |-> "TypeError", v |-> 0]
    ELSE IF arg.t = "int" THEN [ok |-> TRUE, err |-> "none", v |-> arg.v]
    ELSE LET st == Strip(arg.s)
             signed == st # <<>> /\ Head(st) \in {"+", "-"}
             ds == IF signed THEN Tail(st) ELSE st
         IN  IF ds # <<>> /\ RunLength(ds, 1, TRUE) = Len(ds)
             THEN [ok |-> TRUE, err |-> "none",
                   v |-> IF signed /\ Head(st) = "-" THEN 0 - IntOf(ds, 1, Len(ds))
                         ELSE IntOf(ds, 1, Len(ds))]
             ELSE [ok |-> FALSE, err |-> "ValueError", v |-> 0]

RECURSIVE NatToStr(_)
NatToStr(n) ==
    IF n < 10 THEN Digits[n + 1]
    ELSE NatToStr(n \div 10) \o Digits[(n % 10) + 1]

\* str(n) of an integer
IntToStr(n) == IF n < 0 THEN "-" \o NatToStr(0 - n) ELSE NatToStr(n)

\* thumbnail_url catching ValueError alone.
CaughtValueErrorOnly(err) == err = "ValueError"

\* lines 31 and 35: except (TypeError, ValueError)
Caught(err) == err \in {"TypeError", "ValueError"}

\* lines 29-32 and 33-36: the '&HEI=%s' or '&WID=%s' segment, '' when int()
\* raised an exception that is caught
Segment(key, arg) ==
    LET c == IntCoerce(arg)
    IN  IF c.ok THEN [ok |-> TRUE, err |-> "none", val |-> <<key, IntToStr(c.v)>>]
        ELSE IF Caught(c.err) THEN [ok |-> TRUE, err |-> "none", val |-> <<>>]
        ELSE [ok |-> FALSE, err |-> c.err, val |-> <<>>]

\* ImageFieldFile.thumbnail_url, lines 28-37
ThumbnailUrl(base, name, height, width) ==
    LET hs == Segment("&HEI=", height)
        ws == Segment("&WID=", width)
        u == FullBaseUrl(base, name)
    IN  IF ~hs.ok THEN hs
        ELSE IF ~ws.ok THEN ws
        ELSE IF ~u.ok THEN u
        ELSE [u EXCEPT !.val = @ \o hs.val \o ws.val \o <<"&CVT=JPEG">>]

\* One call of a URL builder is followed: what it was given and what it gave.
Called(op, h, height, width, r) ==
    [op |-> op, h |-> h, height |-> height, width |-> width,
     ok |-> r.ok, err |-> r.err, val |-> r.val]

\* ImageFieldFile.full_base_url, lines 10-12
CallFullBaseUrl(h) ==
    /\ call = NoCall
    /\ call' = Called("full_base_url", h, NoCall.height, NoCall.width,
                      FullBaseUrl(baseUrl, hd[h].name))
    /\ UNCHANGED <<files, recs, nextUuid, perms, started, up, baseUrl, hd>>

\* ImageFieldFile.url: self.storage.url(self.name)
CallUrl(h) ==
    /\ call = NoCall
    /\ call' = Called("url", h, NoCall.height, NoCall.width, Url(baseUrl, hd[h].name))
    /\ UNCHANGED <<files, recs, nextUuid, perms, started, up, baseUrl, hd>>

CallThumbnailUrl(h) ==
    /\ call = NoCall
    /\ \E height, width \in ThumbArgs :
          call' = Called("thumbnail_url", h, height, width,
                         ThumbnailUrl(baseUrl, hd[h].name, height, width))
    /\ UNCHANGED <<files, recs, nextUuid, perms, started, up, baseUrl, hd>>

\* Two handles on stored images; the server URL is configured or not.
HandleInit ==
    /\ perms = "none"
    /\ files = Put(Put(<<>>, GenerateNewImagePath(1), [kind |-> "jp2", mode |-> "default"]),
                   GenerateNewImagePath(2), [kind |-> "jp2", mode |-> "default"])
    /\ recs = <<GenerateNewImagePath(1), GenerateNewImagePath(2)>>
    /\ nextUuid = 3
    /\ started = 0
    /\ up = [w \in Workers |-> IdleUpload]
    /\ baseUrl \in {NoUrl, ServerUrl}
    /\ hd = [h \in Handles |-> NewHandle(h)]
    /\ call = NoCall

HandleNext ==
    \E h \in Handles :
        \/ GetImageDimensions(h)
        \/ CallFullBaseUrl(h)
        \/ CallUrl(h)
        \/ CallThumbnailUrl(h)

\* The handles' operations alone, on images already stored.
HandleSpec == HandleInit /\ [][HandleNext]_vars

----------------------------------------------------------------------------
(* Properties.                                                             *)

Stages == {1, 2}

\* In this step worker w leaves _call_image_conversion for stage s.
StageEnds(w, s) ==
    /\ up[w].pc = "finally"
    /\ up[w].stage = s
    /\ up'[w].pc # "finally"

\* In this step the upload of worker w returns its name from _save.
Returns(w) == up[w].pc = "return" /\ up'[w].pc = "done"

ConversionError(s) == [kind |-> "IOError", cause |-> "exit", stage |-> s]

\* C1: when a stage's command exits nonzero, the stage's input file is
\* deleted and the exception that leaves _call_image_conversion is the
\* IOError 'Failed to convert the page image to .jp2' of that stage.
C1_ExitRaisesConversionError ==
    [][\A w \in Workers : \A s \in Stages :
          StageEnds(w, s) /\ up[w].outcome[s] = "exit"
          => /\ ~Exists(files', InputPath(up[w]))
             /\ up'[w].err = ConversionError(s)]_vars

\* C2: every run of a stage, successful or not, calls the removal of the
\* stage's input file exactly once.
C2_RemovedExactlyOnce ==
    [][\A w \in Workers : \A s \in Stages :
          StageEnds(w, s) => up'[w].removes[s] = 1]_vars

\* C3: when stage 1 fails, no file is left at the final path and the upload
\* fails with the conversion error of stage 1.
C3_Stage1Failure ==
    [][\A w \in Workers :
          StageEnds(w, 1) /\ up[w].outcome[1] # "ok"
          => /\ up'[w].pc = "failed"
             /\ ~Exists(files', up[w].saved)
             /\ up'[w].err = ConversionError(1)]_vars

\* C4: when stage 1 succeeds and stage 2 fails, neither the uploaded bytes
\* at the final path nor the intermediate TIFF remain, and the upload fails
\* with the conversion error of stage 2.
C4_Stage2Failure ==
    [][\A w \in Workers :
          StageEnds(w, 2) /\ up[w].outcome[1] = "ok" /\ up[w].outcome[2] # "ok"
          => /\ up'[w].pc = "failed"
             /\ ~Exists(files', TempFile(up[w].saved))
             /\ (Exists(files', up[w].saved) => files'[up[w].saved].kind # "raw")
             /\ up'[w].err = ConversionError(2)]_vars

C6_SpawnFailureRaisesConversionError ==
    [][\A w \in Workers : \A s \in Stages :
          StageEnds(w, s) /\ up[w].outcome[s] = "spawn"
          => /\ ~Exists(files', InputPath(up[w]))
             /\ up'[w].err.kind = "IOError"]_vars

Converting(w) == up[w].pc \in {"run", "except", "finally", "chmod"}

ConversionPaths(w) == {up[w].saved, TempFile(up[w].saved)}

\* C7: no two conversions in flight at the same time work on the same final
\* path or the same intermediate path.
C7_ConversionsShareNoPath ==
    \A w1, w2 \in Workers :
        w1 # w2 /\ Converting(w1) /\ Converting(w2)
        => ConversionPaths(w1) \cap ConversionPaths(w2) = {}

C9_AtMostOneGet == \A h \in Handles : hd[h].gets <= 1

\* C9, amended: at most one HTTP GET of a handle returns a response, and
\* once a call has returned a pair every later call is answered from the
\* cache: it issues no GET and leaves the cache as it is.  (A GET that
\* raised cached nothing, and the next call issues a GET again.)
C9_AtMostOneFetch ==
    [][\A h \in Handles :
          /\ hd'[h].fetched <= 1
          /\ hd'[h].gets >= hd[h].gets
          /\ hd[h].cache # Unset
             => /\ hd'[h].gets = hd[h].gets
                /\ hd'[h].cache = hd[h].cache
          /\ hd'[h].gets > hd[h].gets => hd[h].fetched = 0]_vars

C9_Witness ==
    \E h \in Handles :
        /\ hd[h].calls = 3
        /\ hd[h].gets = 2
        /\ hd[h].fetched = 1
        /\ hd[h].cache # Unset
        /\ hd[h].result = hd[h].cache

\* The name a new path has: <first uuid char>/<uuid>.jp2, nothing appended.
IsNewPathForm(name) ==
    /\ name.uuid # <<>>
    /\ name.dir = name.uuid[1]
    /\ name.sfx = <<>>
    /\ name.ext = "jp2"

\* C10: no two records hold the same name.  The name an upload returns is
\* held by no other record; for a new instance, or a record without an
\* image, it is a newly generated <first uuid char>/<uuid>.jp2 that no
\* record held before.
C10_NamesAreNotShared ==
    [][/\ \A r1, r2 \in 1..Len(recs') :
             r1 # r2 /\ recs'[r1] # NoImage => recs'[r1] # recs'[r2]
       /\ \A w \in Workers :
             Returns(w)
             => /\ \A r \in 1..Len(recs) : recs[r] = up[w].saved => r = up[w].inst
                /\ up[w].had = NoImage
                   => /\ IsNewPathForm(up[w].saved)
                      /\ \A r \in 1..Len(recs) : recs[r] # up[w].saved]_vars

C10_Witness ==
    \E w1, w2 \in Workers :
        /\ up[w1].pc = "done" /\ up[w2].pc = "done"
        /\ up[w1].had = NoImage
        /\ up[w2].had # NoImage
        /\ recs[up[w2].inst] = up[w2].had
        /\ recs[up[w1].inst] = up[w1].saved
        /\ up[w1].inst # up[w2].inst

\* C11: with a server URL configured, thumbnail_url never raises, whatever
\* height and width are; after <base>?FIF=<name> the URL holds '&HEI=<n>' if
\* and only if height coerces to the integer n, then '&WID=<m>' if and only
\* if width coerces to the integer m, and then '&CVT=JPEG', with which it ends.
C11_ThumbnailSegments ==
    call.op = "thumbnail_url" /\ baseUrl # NoUrl
    => LET hei == IF call.height.isint THEN <<"&HEI=", call.height.text>> ELSE <<>>
           wid == IF call.width.isint THEN <<"&WID=", call.width.text>> ELSE <<>>
       IN  /\ call.ok
           /\ Len(call.val) >= 4
           /\ SubSeq(call.val, 4, Len(call.val)) = hei \o wid \o <<"&CVT=JPEG">>

C11_Witness ==
    /\ call.op = "thumbnail_url"
    /\ call.ok
    /\ call.height.t = "str" /\ ~call.height.isint
    /\ call.width.t = "int" /\ call.width.v < 0
    /\ Len(call.val) = 6

\* C12: without a server base URL every URL builder (full_base_url, url,
\* thumbnail_url) raises the ValueError and yields no URL, and the dimension
\* probe raises it too: it issues no HTTP GET and caches nothing.
C12_NoUrlWithoutBaseUrl ==
    baseUrl = NoUrl
    => /\ call.op # "none"
          => ~call.ok /\ call.err = "ValueError" /\ call.val = <<>>
       /\ \A h \in Handles :
             /\ hd[h].gets = 0
             /\ hd[h].cache = Unset
             /\ hd[h].url = <<>>
             /\ ~hd[h].returned
             /\ hd[h].calls > 0 => hd[h].result = "ValueError"

C12_Witness ==
    /\ baseUrl = NoUrl
    /\ call.op = "thumbnail_url"
    /\ call.height.isint
    /\ call.err = "ValueError"
    /\ \E h \in Handles : hd[h].calls >= 2 /\ hd[h].result = "ValueError"

\* C14: with a server URL configured, url(name) is full_base_url(name),
\* that is <base>?FIF=<name>, followed by '&RST=*&QLT=100&CVT=JPEG'.
C14_DisplayUrl ==
    call.op \in {"url", "full_base_url"} /\ baseUrl # NoUrl
    => LET base_query == <<baseUrl, "?FIF=", hd[call.h].name>>
       IN  /\ call.ok
           /\ hd[call.h].name # NoImage
           /\ call.op = "full_base_url" => call.val = base_query
           /\ call.op = "url"
              => call.val = base_query \o <<"&RST=*&QLT=100&CVT=JPEG">>

C14_Witness ==
    /\ call.op = "url"
    /\ call.ok
    /\ Len(call.val) = 4
    /\ call.val[1] = ServerUrl

\* 'Max-size:' stands at position i of s, followed by digits, whitespace
\* and digits.
HasSizeAt(s, i) ==
    LET p1 == i + Len(MaxSizeLit)
        d1 == RunLength(s, p1, TRUE)
        sp == RunLength(s, p1 + d1, FALSE)
    IN  /\ i + Len(MaxSizeLit) - 1 <= Len(s)
        /\ \A k \in 1..Len(MaxSizeLit) : s[i + k - 1] = MaxSizeLit[k]
        /\ d1 > 0
        /\ sp > 0
        /\ RunLength(s, p1 + d1 + sp, TRUE) > 0

\* The two integers that follow 'Max-size:' at position i, and where they end.
SizeAt(s, i) ==
    LET p1 == i + Len(MaxSizeLit)
        d1 == RunLength(s, p1, TRUE)
        p2 == p1 + d1 + RunLength(s, p1 + d1, FALSE)
        d2 == RunLength(s, p2, TRUE)
    IN  [width |-> IntOf(s, p1, d1), height |-> IntOf(s, p2, d2), end |-> p2 + d2 - 1]

\* A line break stands among s[a..b], the whitespace at the start and at the
\* end of s aside.
LineBreakIn(s, a, b) ==
    \E k \in a..b :
        /\ s[k] = "\n"
        /\ \E j \in 1..(k - 1) : ~IsSpace(s[j])
        /\ \E j \in (k + 1)..Len(s) : ~IsSpace(s[j])

Least(set) == CHOOSE k \in set : \A j \in set : k <= j

\* C13, as stated: the probe returns (0, 0) when the body holds no
\* 'Max-size:<digits> <digits>', and otherwise the two integers of the first
\* one, whatever text surrounds it.
C13_ProbeParsesAnySurrounding ==
    \A h \in Handles :
        hd[h].fetched = 1
        => LET s == hd[h].body
               at == {i \in 1..Len(s) : HasSizeAt(s, i)}
           IN  hd[h].cache = IF at = {} THEN <<0, 0>>
                             ELSE <<SizeAt(s, Least(at)).width, SizeAt(s, Least(at)).height>>

\* C13, amended: the probe returns the two integers (width, height) of the
\* first 'Max-size:<digits> <digits>' that no line break separates from the
\* start or from the end of the body, whatever other text surrounds it; it
\* returns (0, 0) when the body is empty or holds none.
C13_ProbeParsesOneLine ==
    \A h \in Handles :
        hd[h].fetched = 1
        => LET s == hd[h].body
               at == {i \in 1..Len(s) :
                        /\ HasSizeAt(s, i)
                        /\ ~LineBreakIn(s, 1, i - 1)
                        /\ ~LineBreakIn(s, SizeAt(s, i).end + 1, Len(s))}
           IN  /\ hd[h].returned
               /\ hd[h].result = hd[h].cache
               /\ hd[h].cache = IF at = {} THEN <<0, 0>>
                                ELSE <<SizeAt(s, Least(at)).width,
                                       SizeAt(s, Least(at)).height>>

C13_Witness ==
    \E h1, h2 \in Handles :
        /\ hd[h1].fetched = 1 /\ hd[h1].cache = <<7, 9>> /\ hd[h1].body[1] = "f"
        /\ hd[h2].fetched = 1 /\ hd[h2].cache = <<0, 0>>
        /\ \E i \in 1..Len(hd[h2].body) : HasSizeAt(hd[h2].body, i)

\* In this step worker w takes a step of its upload.
Steps(w) == up'[w] # up[w]

\* C15: within one _convert_image run, stage 1 runs first; the command of
\* stage 2 is run only after stage 1 succeeded; the permissions are set, on
\* the final path only, only after stage 2 succeeded and only when a mask is
\* configured; and when a stage fails the run ends there: the worker's next
\* step, if any, begins another upload.
C15_StepsInOrder ==
    [][\A w \in Workers :
        LET u == up[w]
        IN  /\ Steps(w) /\ u.pc = "run" /\ u.stage = 1
                => u.outcome = <<"none", "none">> /\ u.err = NoError
            /\ Steps(w) /\ u.pc \in {"run", "except", "finally"} /\ u.stage = 2
                => u.outcome[1] = "ok" /\ u.removes[1] = 1
            /\ Steps(w) /\ u.pc = "chmod"
                => /\ u.outcome = <<"ok", "ok">>
                   /\ u.err = NoError
                   /\ files' # files
                        => /\ perms # "none"
                           /\ \A n \in DOMAIN files :
                                n # u.saved => n \in DOMAIN files' /\ files'[n] = files[n]
            /\ \A s \in Stages :
                 StageEnds(w, s) /\ (u.outcome[s] # "ok" \/ up'[w].err # NoError)
                    => up'[w].pc = "failed"
            /\ Steps(w) /\ u.pc = "failed" => up'[w].pc = "path"
            /\ Steps(w) /\ u.pc \in {"save", "run", "except", "finally", "chmod", "return"}
                => up'[w].pc \in {"run", "except", "finally", "chmod", "return",
                                  "done", "failed"}
    ]_vars

C15_Witness ==
    \E w1, w2 \in Workers :
        /\ up[w1].pc = "failed"
        /\ up[w1].outcome = <<"exit", "none">>
        /\ up[w2].pc = "done"
        /\ up[w2].outcome = <<"ok", "ok">>
        /\ perms # "none"
        /\ Exists(files, up[w2].saved)
        /\ files[up[w2].saved].mode = perms

\* In this step the command of stage s of worker w's upload returns.
CommandReturns(w, s) ==
    /\ up[w].pc = "run"
    /\ up[w].stage = s
    /\ up'[w].outcome[s] = "ok"

ReplacementFails(w) ==
    /\ up[w].had # NoImage
    /\ up[w].pc # "failed"
    /\ up'[w].pc = "failed"

Probes(h) == hd'[h].calls = hd[h].calls + 1

\* C18: once a call on a handle has returned a pair, the pair is cached,
\* (0, 0) included, and every later call on the handle returns it without a
\* request; a call whose GET raised leaves the handle without a cache, and
\* the next call on it requests again.
C18_ReturnedPairIsKept ==
    [][\A h \in Handles :
        /\ Probes(h) /\ hd'[h].returned
            => /\ hd'[h].cache # Unset
               /\ hd'[h].result = hd'[h].cache
        /\ Probes(h) /\ hd[h].returned
            => /\ hd'[h].returned
               /\ hd'[h].result = hd[h].result
               /\ hd'[h].cache = hd[h].cache
               /\ hd'[h].gets = hd[h].gets
        /\ Probes(h) /\ ~hd'[h].returned
            => hd'[h].cache = Unset
        /\ Probes(h) /\ ~hd[h].returned /\ hd[h].gets > 0
            => hd'[h].gets = hd[h].gets + 1
    ]_vars

C18_Witness ==
    \E h \in Handles :
        /\ hd[h].calls = 3
        /\ hd[h].gets = 2
        /\ hd[h].returned
        /\ hd[h].cache = <<0, 0>>
        /\ hd[h].result = <<0, 0>>

============================================================================
